---------------------------- MODULE Spec2Model ----------------------------
(***************************************************************************)
(* Model of src/app.py, the Genovia ROI calculator: the pure function      *)
(* calc_roi and the Streamlit script that builds the catalogs, applies a   *)
(* session's overrides to a runtime copy and computes the summary results  *)
(* and the tier comparison.                                                *)
(*                                                                         *)
(* Numbers.  The amounts of the model are integer valued; on such values   *)
(* the double-precision +, - and * of the source are exact.  A true        *)
(* division a / b is kept as the exact fraction <<n, d>> in lowest terms   *)
(* with d > 0 (the double the source holds is its correctly rounded        *)
(* value), and raises ZeroDivisionError when b = 0.                        *)
(***************************************************************************)
EXTENDS Integers, Sequences, FiniteSets, TLC

VARIABLES
    tiers_df, pdlla_df, shipping_df,  \* the cached result of load_config()
    session_state,   \* per session: widget id -> value held by Streamlit
    status,          \* per session: outcome of its last script run
    heap,            \* per session: the tier dict objects of its last run
    TIERS_BASE, PDLLA_TIERS_BASE, SHIPPING_BASE,  \* per session: module globals
    tiers_runtime, shipping_runtime,              \* per session: runtime copies
    inputs,          \* per session: the values the sidebar widgets returned
    genovia_results, pdlla_results, comparison,   \* per session: outputs
    interactions,    \* number of user interactions so far
    call, ret        \* a direct call of calc_roi: its arguments and its result

config  == <<tiers_df, pdlla_df, shipping_df>>
globals == <<TIERS_BASE, PDLLA_TIERS_BASE, SHIPPING_BASE>>
locals  == <<heap, tiers_runtime, shipping_runtime, inputs,
             genovia_results, pdlla_results, comparison>>
app     == <<session_state, status, globals, locals, interactions>>
vars    == <<config, app, call, ret>>

-----------------------------------------------------------------------------
(* Bounds of the model *)

MaxCases == 2          \* a direct call takes num_cases in 0..MaxCases
MaxPriceSteps == 4     \* a direct call takes prices up to this many steps
MaxInteractions == 2   \* user interactions explored over all sessions
MaxScale == 3          \* scale factors 1..MaxScale applied to a scenario

Sessions == {"s1", "s2"}

-----------------------------------------------------------------------------
(* Python values *)

None == <<>>
ZeroDivisionError == <<"ZeroDivisionError">>

Abs(x) == IF x < 0 THEN -x ELSE x

RECURSIVE Gcd(_, _)
Gcd(a, b) == IF b = 0 THEN a ELSE Gcd(b, a % b)

\* the fraction n / d (d # 0) in lowest terms with a positive denominator
Norm(n, d) ==
    LET g == Gcd(Abs(n), Abs(d))
        sgn == IF d < 0 THEN -1 ELSE 1
    IN  <<sgn * (n \div g), sgn * (d \div g)>>

\* Python's a / b on numbers
TrueDiv(a, b) == IF b = 0 THEN ZeroDivisionError ELSE Norm(a, b)

\* Python's q * k where q is the result of a true division
Times(q, k) == IF q = ZeroDivisionError THEN q ELSE Norm(q[1] * k, q[2])

\* dict.get(key, default) on a dict modelled as a record
DictGet(d, key, default) == IF key \in DOMAIN d THEN d[key] ELSE default

-----------------------------------------------------------------------------
(* calc_roi, line by line *)

total_txs(total_cases, tx_per_case) == total_cases * tx_per_case

product_cost(total_cases, case_price) == total_cases * case_price

\* variant: the shipping cost is left out of the total cost
total_cost_no_shipping(product, shipping_cost) == product
total_cost(product, shipping_cost) == product + shipping_cost

\* variant: the extra cost per treatment is left out
total_cost_per_tx_no_extra(cost_per_tx_product, extra_cost_per_tx) == cost_per_tx_product
total_cost_per_tx(cost_per_tx_product, extra_cost_per_tx) ==
    cost_per_tx_product + extra_cost_per_tx

profit_per_tx(revenue_per_tx, cost_per_tx_all) == revenue_per_tx - cost_per_tx_all

total_revenue(revenue_per_tx, txs) == revenue_per_tx * txs

total_profit(profit, txs) == profit * txs

\* variant: no guard on a zero revenue
margin_pct_unguarded(profit, revenue) == Times(TrueDiv(profit, revenue), 100)
margin_pct(profit, revenue) ==
    IF revenue # 0 THEN Times(TrueDiv(profit, revenue), 100) ELSE <<0, 1>>

roi_pct(profit, cost) ==
    IF cost # 0 THEN Times(TrueDiv(profit, cost), 100) ELSE <<0, 1>>

\* variants: a zero profit per treatment divides; the quotient is inverted
breakeven_txs_non_strict(cost, profit) ==
    IF profit >= 0 THEN TrueDiv(cost, profit) ELSE None
breakeven_txs_inverted(cost, profit) ==
    IF profit > 0 THEN TrueDiv(profit, cost) ELSE None
breakeven_txs(cost, profit) ==
    IF profit > 0 THEN TrueDiv(cost, profit) ELSE None

\* The dict calc_roi returns.  When a division raises, the field it was to
\* fill holds ZeroDivisionError and the call returns nothing: see Raised.
calc_roi(tier, num_cases, price_per_tx, extra_cost_per_tx, shipping_cost, default_tx) ==
    LET case_price == tier["case_price"]
        cost_per_tx_product == tier["cost_per_tx"]
        tx_per_case == DictGet(tier, "tx_per_case", default_tx)
        total_cases == num_cases
        txs == total_txs(total_cases, tx_per_case)
        product == product_cost(total_cases, case_price)
        cost == total_cost(product, shipping_cost)
        cost_per_tx_all == total_cost_per_tx(cost_per_tx_product, extra_cost_per_tx)
        revenue_per_tx == price_per_tx
        profit == profit_per_tx(revenue_per_tx, cost_per_tx_all)
        revenue == total_revenue(revenue_per_tx, txs)
        profit_all == total_profit(profit, txs)
    IN  [ total_cases |-> total_cases,
          total_txs |-> txs,
          product_cost |-> product,
          shipping_cost |-> shipping_cost,
          total_cost |-> cost,
          revenue_per_tx |-> revenue_per_tx,
          cost_per_tx_product |-> cost_per_tx_product,
          extra_cost_per_tx |-> extra_cost_per_tx,
          total_cost_per_tx |-> cost_per_tx_all,
          profit_per_tx |-> profit,
          total_revenue |-> revenue,
          total_profit |-> profit_all,
          margin_pct |-> margin_pct(profit_all, revenue),
          roi_pct |-> roi_pct(profit_all, cost),
          breakeven_txs |-> breakeven_txs(cost, profit) ]

\* the call raised instead of returning
Raised(r) == ZeroDivisionError \in {r.margin_pct, r.roi_pct, r.breakeven_txs}

-----------------------------------------------------------------------------
(* Python dicts.  A dict is the sequence of its entries [key, val] in        *)
(* insertion order; assigning to a key that is present keeps its position.   *)

Keys(d) == [i \in 1..Len(d) |-> d[i].key]
Has(d, k) == \E i \in 1..Len(d) : d[i].key = k
Lookup(d, k) == d[CHOOSE i \in 1..Len(d) : d[i].key = k].val
DictSet(d, k, v) ==
    IF Has(d, k)
    THEN [i \in 1..Len(d) |-> IF d[i].key = k THEN [key |-> k, val |-> v] ELSE d[i]]
    ELSE Append(d, [key |-> k, val |-> v])

\* The inner dict built for one row of a tiers file.  The description and
\* savings_vs_standard_pct columns are never read again and are left out.
tier_info(row) ==
    [ case_price |-> row.case_price,
      cost_per_tx |-> row.cost_per_tx,
      tx_per_case |-> row.tx_per_case,
      default_clinic_price_per_tx |-> row.default_clinic_price_per_tx,
      default_extra_cost_per_tx |-> row.default_extra_cost_per_tx,
      default_min_cases |-> row.default_min_cases,
      default_max_cases |-> row.default_max_cases ]

\* for _, row in df.iterrows(): D[row["tier_name"]] = {...}
RECURSIVE build_tiers(_, _, _)
build_tiers(df, i, d) ==
    IF i > Len(df) THEN d
    ELSE build_tiers(df, i + 1, DictSet(d, df[i].tier_name, tier_info(df[i])))

\* {row["shipping_name"]: float(row["shipping_cost"]) for ...}
RECURSIVE build_shipping(_, _, _)
build_shipping(df, i, d) ==
    IF i > Len(df) THEN d
    ELSE build_shipping(df, i + 1, DictSet(d, df[i].shipping_name, df[i].shipping_cost))

\* The inner dicts are objects: a catalog holds references <<owner, name>> to
\* them and the heap holds their contents.
Refs(vals, owner) ==
    [i \in 1..Len(vals) |-> [key |-> vals[i].key, val |-> <<owner, vals[i].key>>]]
Objects(vals, owner) ==
    [r \in {<<owner, vals[i].key>> : i \in 1..Len(vals)} |-> Lookup(vals, r[2])]

\* the contents a catalog of references stands for
Deref(h, d) == [i \in 1..Len(d) |-> [key |-> d[i].key, val |-> h[d[i].val]]]

\* v.copy() of an inner dict: a new object
\* variant: no copy is made, the runtime catalog shares the base's dicts
dict_copy_alias(ref) == ref
dict_copy(ref) == <<"tiers_runtime", ref[2]>>

-----------------------------------------------------------------------------
(* Streamlit widgets.  session_state maps the identity of each widget the    *)
(* last run rendered to its value.  A widget with a key is identified by its *)
(* key, one without by its label and parameters.                             *)

NoWidgets == <<>>

WCasePrice(t) == <<"case_price", t>>
WCostPerTx(t) == <<"cost_per_tx", t>>
WTxPerCase(t) == <<"tx_per_case", t>>
WTierChoice == <<"Genovia tier offered">>
WNumCases(lo, hi) == <<"Number of cases in this order", lo, hi, lo>>
WPricePerTx(v) == <<"Clinic price per treatment ($)", 0, -1, v>>
WExtraCost(v) == <<"Other per-treatment cost (tips, etc.)", 0, -1, v>>
WShippingName == <<"Shipping option">>
WShippingCost == <<"shipping_cost_active">>
WPdllaChoice == <<"PDLLA tier">>

number_input(ss, id, value) == IF id \in DOMAIN ss THEN ss[id] ELSE value
selectbox(ss, id, options) ==
    IF id \in DOMAIN ss THEN ss[id]
    ELSE IF Len(options) = 0 THEN None ELSE options[1]

\* the steps of the number inputs
CasePriceStep == 10
CostPerTxStep == 1
TxPerCaseStep == 1
NumCasesStep == 1
PricePerTxStep == 50
ExtraCostStep == 10
ShippingCostStep == 5
\* min_value of "Treatments per Case"
TxPerCaseMin == 1

-----------------------------------------------------------------------------
(* The script, top to bottom.  Streamlit executes it anew, in a fresh module *)
(* namespace, for every session and after every interaction; only the cached *)
(* configuration and the session's widget values outlive a run.              *)

\* TX_PER_CASE_DEFAULT = list(TIERS_BASE.values())[0]["tx_per_case"]
TX_PER_CASE_DEFAULT(h, base) == h[base[1].val].tx_per_case

\* tiers_runtime = {k: v.copy() for k, v in TIERS_BASE.items()}
copy_tiers(base) == [i \in 1..Len(base) |-> [key |-> base[i].key, val |-> dict_copy(base[i].val)]]

\* the heap once the copies exist: each copy holds what its original holds
heap_with_copies(h, base, runtime) ==
    [r \in DOMAIN h \cup {runtime[i].val : i \in 1..Len(runtime)} |->
        IF r \in DOMAIN h THEN h[r]
        ELSE h[base[CHOOSE i \in 1..Len(runtime) : runtime[i].val = r].val]]

\* the three number inputs of one tier's expander, assigned to the tier dict
tier_settings(tier, ss, tier_name) ==
    [tier EXCEPT
        !.case_price = number_input(ss, WCasePrice(tier_name), tier.case_price),
        !.cost_per_tx = number_input(ss, WCostPerTx(tier_name), tier.cost_per_tx),
        !.tx_per_case = number_input(ss, WTxPerCase(tier_name), tier.tx_per_case)]

\* for tier_name, tier in tiers_runtime.items(): ... the writes go to the
\* objects tiers_runtime refers to
apply_tier_settings(h, runtime, ss) ==
    [r \in DOMAIN h |->
        IF \E i \in 1..Len(runtime) : runtime[i].val = r
        THEN tier_settings(h[r], ss, r[2])
        ELSE h[r]]

\* tier_selected = tiers_runtime[tier_choice]
\* variant: the selected tier is read from TIERS_BASE
tier_selected_base(h, runtime, base, tier_choice) == h[Lookup(base, tier_choice)]
tier_selected(h, runtime, base, tier_choice) == h[Lookup(runtime, tier_choice)]

\* pdlla_tier_selected = PDLLA_TIERS_BASE[pdlla_tier_choice]
pdlla_tier_selected(h, pdlla_base, pdlla_tier_choice) == h[Lookup(pdlla_base, pdlla_tier_choice)]

\* one dict appended to comparison
\* variant: the ROI % column is filled with the margin
comparison_row_margin(tname, r) ==
    ("Tier" :> tname) @@ ("Cost per treatment" :> r.cost_per_tx_product)
    @@ ("Total Profit" :> r.total_profit) @@ ("ROI %" :> r.margin_pct)
comparison_row(tname, r) ==
    ("Tier" :> tname) @@ ("Cost per treatment" :> r.cost_per_tx_product)
    @@ ("Total Profit" :> r.total_profit) @@ ("ROI %" :> r.roi_pct)

\* a < b on fractions
FracLess(a, b) == a[1] * b[2] < b[1] * a[2]

\* rows by descending ROI %, ties in the given order
RECURSIVE ranked(_)
ranked(rows) ==
    IF Len(rows) = 0 THEN <<>>
    ELSE LET best == CHOOSE i \in 1..Len(rows) :
                        /\ \A j \in 1..Len(rows) : ~FracLess(rows[i]["ROI %"], rows[j]["ROI %"])
                        /\ \A j \in 1..(i - 1) : FracLess(rows[j]["ROI %"], rows[i]["ROI %"])
             rest == [k \in 1..(Len(rows) - 1) |-> IF k < best THEN rows[k] ELSE rows[k + 1]]
         IN  <<rows[best]>> \o ranked(rest)

\* for tname, info in tiers_runtime.items(): r = calc_roi(info, ...); comparison.append({...})
\* variant: the rows are ranked by ROI %
compare_tiers_plain(h, runtime, base, num_cases, price_per_tx, extra_cost_per_tx, shipping_cost, default_tx) ==
    [i \in 1..Len(runtime) |->
        comparison_row(runtime[i].key,
            calc_roi(h[runtime[i].val], num_cases, price_per_tx, extra_cost_per_tx,
                     shipping_cost, default_tx))]
compare_tiers_ranked(h, runtime, base, num_cases, price_per_tx, extra_cost_per_tx, shipping_cost, default_tx) ==
    ranked(compare_tiers_plain(h, runtime, base, num_cases, price_per_tx,
                               extra_cost_per_tx, shipping_cost, default_tx))
compare_tiers(h, runtime, base, num_cases, price_per_tx, extra_cost_per_tx, shipping_cost, default_tx) ==
    [i \in 1..Len(runtime) |->
        comparison_row(runtime[i].key,
            calc_roi(h[runtime[i].val], num_cases, price_per_tx, extra_cost_per_tx,
                     shipping_cost, default_tx))]

\* The stages of one run, given the widget values ss it starts from.  Each
\* stage hands what it has built to the next.

\* MAIN: the two summary results and the comparison (lines 336-450)
main(rendered, h, base, pdlla_base, shipping_base, runtime, shipping_rt, default_tx, inp, sel, pdlla_sel) ==
    [ status |-> "ok", session_state |-> rendered, heap |-> h,
      TIERS_BASE |-> base, PDLLA_TIERS_BASE |-> pdlla_base,
      SHIPPING_BASE |-> shipping_base,
      tiers_runtime |-> runtime, shipping_runtime |-> shipping_rt,
      inputs |-> inp,
      genovia_results |-> calc_roi(sel, inp.num_cases, inp.price_per_tx,
                                   inp.extra_cost_per_tx, inp.shipping_cost, default_tx),
      pdlla_results |-> calc_roi(pdlla_sel, inp.num_cases, inp.price_per_tx,
                                 inp.extra_cost_per_tx, inp.shipping_cost, default_tx),
      comparison |-> compare_tiers(h, runtime, base, inp.num_cases, inp.price_per_tx,
                                   inp.extra_cost_per_tx, inp.shipping_cost, default_tx) ]

\* the widget values Streamlit keeps: those of the widgets this run rendered
rendered_widgets(h, runtime, sel, inp) ==
    [id \in {WCasePrice(runtime[i].key) : i \in 1..Len(runtime)}
         \cup {WCostPerTx(runtime[i].key) : i \in 1..Len(runtime)}
         \cup {WTxPerCase(runtime[i].key) : i \in 1..Len(runtime)} |->
        IF id[1] = "case_price" THEN h[Lookup(runtime, id[2])].case_price
        ELSE IF id[1] = "cost_per_tx" THEN h[Lookup(runtime, id[2])].cost_per_tx
        ELSE h[Lookup(runtime, id[2])].tx_per_case]
    @@ (WNumCases(sel.default_min_cases, sel.default_max_cases) :> inp.num_cases)
    @@ (WPricePerTx(sel.default_clinic_price_per_tx) :> inp.price_per_tx)
    @@ (WExtraCost(sel.default_extra_cost_per_tx) :> inp.extra_cost_per_tx)
    @@ (WTierChoice :> inp.tier_choice) @@ (WShippingName :> inp.shipping_name)
    @@ (WShippingCost :> inp.shipping_cost) @@ (WPdllaChoice :> inp.pdlla_tier_choice)

\* SIDEBAR, clinic inputs, shipping and PDLLA tier (lines 292-331)
clinic_inputs(ss, h, base, pdlla_base, shipping_base, runtime, shipping_rt, default_tx, tier_choice, sel, shipping_name, pdlla_tier_choice) ==
    LET inp == [ tier_choice |-> tier_choice,
                 num_cases |-> number_input(ss,
                     WNumCases(sel.default_min_cases, sel.default_max_cases),
                     sel.default_min_cases),
                 price_per_tx |-> number_input(ss,
                     WPricePerTx(sel.default_clinic_price_per_tx),
                     sel.default_clinic_price_per_tx),
                 extra_cost_per_tx |-> number_input(ss,
                     WExtraCost(sel.default_extra_cost_per_tx),
                     sel.default_extra_cost_per_tx),
                 shipping_name |-> shipping_name,
                 shipping_cost |-> number_input(ss, WShippingCost,
                     Lookup(shipping_rt, shipping_name)),
                 pdlla_tier_choice |-> pdlla_tier_choice ]
    IN  main(rendered_widgets(h, runtime, sel, inp), h, base, pdlla_base, shipping_base,
             runtime, shipping_rt, default_tx, inp, sel,
             pdlla_tier_selected(h, pdlla_base, pdlla_tier_choice))

choices(ss, h, base, pdlla_base, shipping_base, runtime, shipping_rt, default_tx, tier_choice) ==
    clinic_inputs(ss, h, base, pdlla_base, shipping_base, runtime, shipping_rt, default_tx,
                  tier_choice, tier_selected(h, runtime, base, tier_choice),
                  selectbox(ss, WShippingName, Keys(shipping_rt)),
                  selectbox(ss, WPdllaChoice, Keys(pdlla_base)))

\* SIDEBAR, the runtime copies and the tier settings (lines 261-287)
sidebar(ss, h, base, pdlla_base, shipping_base, runtime, default_tx) ==
    choices(ss, apply_tier_settings(heap_with_copies(h, base, runtime), runtime, ss),
            base, pdlla_base, shipping_base, runtime, shipping_base, default_tx,
            selectbox(ss, WTierChoice, Keys(runtime)))

\* the PDLLA and shipping catalogs (lines 50-68)
load_rest(ss, h, base, pdlla_vals, default_tx) ==
    sidebar(ss, h @@ Objects(pdlla_vals, "PDLLA_TIERS_BASE"), base,
            Refs(pdlla_vals, "PDLLA_TIERS_BASE"),
            build_shipping(shipping_df, 1, <<>>), copy_tiers(base), default_tx)

\* the tier catalog and TX_PER_CASE_DEFAULT (lines 34-48)
load_tiers(ss, h, base) ==
    IF Len(base) = 0
    THEN \* line 48 raises IndexError: nothing after it is executed
         [ status |-> "IndexError", session_state |-> NoWidgets, heap |-> h,
           TIERS_BASE |-> base, PDLLA_TIERS_BASE |-> <<>>, SHIPPING_BASE |-> <<>>,
           tiers_runtime |-> <<>>, shipping_runtime |-> <<>>, inputs |-> None,
           genovia_results |-> None, pdlla_results |-> None, comparison |-> None ]
    ELSE load_rest(ss, h, base, build_tiers(pdlla_df, 1, <<>>),
                   TX_PER_CASE_DEFAULT(h, base))

catalog(ss, tiers_vals) ==
    load_tiers(ss, Objects(tiers_vals, "TIERS_BASE"), Refs(tiers_vals, "TIERS_BASE"))

\* what one run leaves behind
script(ss) == catalog(ss, build_tiers(tiers_df, 1, <<>>))

-----------------------------------------------------------------------------
(* The configuration files the cached load_config() may have read *)

Row(name, cp, c, t, price, extra, lo, hi) ==
    [ tier_name |-> name, case_price |-> cp, cost_per_tx |-> c, tx_per_case |-> t,
      default_clinic_price_per_tx |-> price, default_extra_cost_per_tx |-> extra,
      default_min_cases |-> lo, default_max_cases |-> hi ]

TiersFile ==
    << Row("Starter", 500, 50, 10, 200, 20, 1, 3),
       Row("Pro", 1150, 45, 20, 250, 20, 2, 4) >>

TiersFiles ==
    { <<>>,
      TiersFile,
      << Row("Starter", 500, 50, 10, 200, 20, 1, 3),
         Row("Pro", 900, 45, 20, 200, 20, 1, 3),
         Row("Starter", 400, 60, 10, 200, 20, 1, 3) >> }

PdllaFile ==
    << Row("PDLLA 1", 600, 60, 10, 200, 20, 1, 3),
       Row("PDLLA 2", 1000, 50, 20, 200, 20, 1, 3) >>

ShippingFile ==
    << [shipping_name |-> "Standard", shipping_cost |-> 100],
       [shipping_name |-> "Express", shipping_cost |-> 150] >>

Init ==
    /\ tiers_df \in TiersFiles
    /\ pdlla_df = PdllaFile
    /\ shipping_df = ShippingFile
    /\ session_state = [s \in Sessions |-> NoWidgets]
    /\ status = [s \in Sessions |-> "none"]
    /\ heap = [s \in Sessions |-> <<>>]
    /\ TIERS_BASE = [s \in Sessions |-> <<>>]
    /\ PDLLA_TIERS_BASE = [s \in Sessions |-> <<>>]
    /\ SHIPPING_BASE = [s \in Sessions |-> <<>>]
    /\ tiers_runtime = [s \in Sessions |-> <<>>]
    /\ shipping_runtime = [s \in Sessions |-> <<>>]
    /\ inputs = [s \in Sessions |-> None]
    /\ genovia_results = [s \in Sessions |-> None]
    /\ pdlla_results = [s \in Sessions |-> None]
    /\ comparison = [s \in Sessions |-> None]
    /\ interactions = 0
    /\ call = None
    /\ ret = None

\* the namespace r of a finished run becomes session s's
Assign(s, r) ==
    /\ session_state' = [session_state EXCEPT ![s] = r.session_state]
    /\ status' = [status EXCEPT ![s] = r.status]
    /\ heap' = [heap EXCEPT ![s] = r.heap]
    /\ TIERS_BASE' = [TIERS_BASE EXCEPT ![s] = r.TIERS_BASE]
    /\ PDLLA_TIERS_BASE' = [PDLLA_TIERS_BASE EXCEPT ![s] = r.PDLLA_TIERS_BASE]
    /\ SHIPPING_BASE' = [SHIPPING_BASE EXCEPT ![s] = r.SHIPPING_BASE]
    /\ tiers_runtime' = [tiers_runtime EXCEPT ![s] = r.tiers_runtime]
    /\ shipping_runtime' = [shipping_runtime EXCEPT ![s] = r.shipping_runtime]
    /\ inputs' = [inputs EXCEPT ![s] = r.inputs]
    /\ genovia_results' = [genovia_results EXCEPT ![s] = r.genovia_results]
    /\ pdlla_results' = [pdlla_results EXCEPT ![s] = r.pdlla_results]
    /\ comparison' = [comparison EXCEPT ![s] = r.comparison]
    /\ UNCHANGED <<config, call, ret>>

\* one execution of the script for session s, starting from widget values ss
Run(s, ss) == Assign(s, script(ss))

\* the user changes a widget, which leaves the widget values ss, and Streamlit
\* reruns the script
Interact(s, ss) ==
    /\ status[s] = "ok"
    /\ interactions < MaxInteractions
    /\ interactions' = interactions + 1
    /\ Run(s, ss)

Stepped(v, step, lo) == {w \in {v - step, v + step} : w >= lo}

\* a browser opens the page: a new session, no widget has a value yet
OpenPage(s) ==
    /\ status[s] = "none"
    /\ UNCHANGED interactions
    /\ Run(s, NoWidgets)

\* the browser reloads the page: Streamlit starts the session afresh
ReloadPage(s) ==
    /\ status[s] # "none"
    /\ interactions < MaxInteractions
    /\ interactions' = interactions + 1
    /\ Run(s, NoWidgets)

SetCasePrice(s) ==
    \E id \in DOMAIN session_state[s] :
        /\ id[1] = "case_price"
        /\ \E v \in Stepped(session_state[s][id], CasePriceStep, 0) :
               Interact(s, [session_state[s] EXCEPT ![id] = v])

SetCostPerTx(s) ==
    \E id \in DOMAIN session_state[s] :
        /\ id[1] = "cost_per_tx"
        /\ \E v \in Stepped(session_state[s][id], CostPerTxStep, 0) :
               Interact(s, [session_state[s] EXCEPT ![id] = v])

SetTxPerCase(s) ==
    \E id \in DOMAIN session_state[s] :
        /\ id[1] = "tx_per_case"
        /\ \E v \in Stepped(session_state[s][id], TxPerCaseStep, TxPerCaseMin) :
               Interact(s, [session_state[s] EXCEPT ![id] = v])

SelectTier(s) ==
    /\ WTierChoice \in DOMAIN session_state[s]
    /\ \E i \in 1..Len(tiers_runtime[s]) :
           /\ tiers_runtime[s][i].key # session_state[s][WTierChoice]
           /\ Interact(s, [session_state[s] EXCEPT ![WTierChoice] = tiers_runtime[s][i].key])

SetNumCases(s) ==
    \E id \in DOMAIN session_state[s] :
        /\ id[1] = "Number of cases in this order"
        /\ \E v \in Stepped(session_state[s][id], NumCasesStep, id[2]) :
               /\ v <= id[3]
               /\ Interact(s, [session_state[s] EXCEPT ![id] = v])

SetPricePerTx(s) ==
    \E id \in DOMAIN session_state[s] :
        /\ id[1] = "Clinic price per treatment ($)"
        /\ \E v \in Stepped(session_state[s][id], PricePerTxStep, 0) :
               Interact(s, [session_state[s] EXCEPT ![id] = v])

SetExtraCost(s) ==
    \E id \in DOMAIN session_state[s] :
        /\ id[1] = "Other per-treatment cost (tips, etc.)"
        /\ \E v \in Stepped(session_state[s][id], ExtraCostStep, 0) :
               Interact(s, [session_state[s] EXCEPT ![id] = v])

\* Whether the keyed shipping cost input keeps its value when the option, and
\* with it the input's default, changes depends on the Streamlit version.
SelectShipping(s) ==
    /\ WShippingName \in DOMAIN session_state[s]
    /\ \E i \in 1..Len(shipping_runtime[s]), keeps \in BOOLEAN :
           LET chosen == [session_state[s] EXCEPT ![WShippingName] = shipping_runtime[s][i].key]
               dropped == [id \in DOMAIN chosen \ {WShippingCost} |-> chosen[id]]
           IN  /\ shipping_runtime[s][i].key # session_state[s][WShippingName]
               /\ Interact(s, IF keeps THEN chosen ELSE dropped)

SetShippingCost(s) ==
    /\ WShippingCost \in DOMAIN session_state[s]
    /\ \E v \in Stepped(session_state[s][WShippingCost], ShippingCostStep, 0) :
           Interact(s, [session_state[s] EXCEPT ![WShippingCost] = v])

SelectPdllaTier(s) ==
    /\ WPdllaChoice \in DOMAIN session_state[s]
    /\ \E i \in 1..Len(PDLLA_TIERS_BASE[s]) :
           /\ PDLLA_TIERS_BASE[s][i].key # session_state[s][WPdllaChoice]
           /\ Interact(s, [session_state[s] EXCEPT ![WPdllaChoice] = PDLLA_TIERS_BASE[s][i].key])

Next ==
    \E s \in Sessions :
        \/ OpenPage(s)
        \/ ReloadPage(s)
        \/ SetCasePrice(s)
        \/ SetCostPerTx(s)
        \/ SetTxPerCase(s)
        \/ SelectTier(s)
        \/ SetNumCases(s)
        \/ SetPricePerTx(s)
        \/ SetExtraCost(s)
        \/ SelectShipping(s)
        \/ SetShippingCost(s)
        \/ SelectPdllaTier(s)

Spec == Init /\ [][Next]_vars

-----------------------------------------------------------------------------
(* calc_roi called directly: the arguments are drawn from bounded sets of    *)
(* non-negative values and the call is the only step.                        *)

TierInputs ==
    { [case_price |-> cp, cost_per_tx |-> c, tx_per_case |-> t] :
          cp \in {0, 100, 500}, c \in {0, 50}, t \in {1, 10} }
PriceInputs == {0, 70} \cup {PricePerTxStep * k : k \in 1..MaxPriceSteps}
ExtraInputs == {0, 20}
ShippingInputs == {0, 100}

CallInputs ==
    [ tier : TierInputs, num_cases : 0..MaxCases, price_per_tx : PriceInputs,
      extra_cost_per_tx : ExtraInputs, shipping_cost : ShippingInputs ]

InitCalc ==
    /\ tiers_df = TiersFile
    /\ pdlla_df = PdllaFile
    /\ shipping_df = ShippingFile
    /\ session_state = [s \in Sessions |-> NoWidgets]
    /\ status = [s \in Sessions |-> "none"]
    /\ heap = [s \in Sessions |-> <<>>]
    /\ TIERS_BASE = [s \in Sessions |-> <<>>]
    /\ PDLLA_TIERS_BASE = [s \in Sessions |-> <<>>]
    /\ SHIPPING_BASE = [s \in Sessions |-> <<>>]
    /\ tiers_runtime = [s \in Sessions |-> <<>>]
    /\ shipping_runtime = [s \in Sessions |-> <<>>]
    /\ inputs = [s \in Sessions |-> None]
    /\ genovia_results = [s \in Sessions |-> None]
    /\ pdlla_results = [s \in Sessions |-> None]
    /\ comparison = [s \in Sessions |-> None]
    /\ interactions = 0
    /\ call \in CallInputs
    /\ ret = None

\* the module global TX_PER_CASE_DEFAULT as the loaded tiers file sets it
LoadedDefaultTx ==
    LET vals == build_tiers(tiers_df, 1, <<>>)
    IN  TX_PER_CASE_DEFAULT(Objects(vals, "TIERS_BASE"), Refs(vals, "TIERS_BASE"))

CallCalcRoi ==
    /\ call # None
    /\ ret = None
    /\ ret' = calc_roi(call.tier, call.num_cases, call.price_per_tx,
                       call.extra_cost_per_tx, call.shipping_cost, LoadedDefaultTx)
    /\ UNCHANGED <<config, app, call>>

NextCalc == CallCalcRoi

SpecCalc == InitCalc /\ [][NextCalc]_vars

-----------------------------------------------------------------------------
(* Claims about calc_roi, checked under SpecCalc *)

Returned == ret # None /\ ~Raised(ret)

\* q is the percentage 100 * a / b
IsPct(q, a, b) == Len(q) = 2 /\ q[2] > 0 /\ q[1] * b = 100 * a * q[2]
\* q is the quotient a / b
IsQuot(q, a, b) == Len(q) = 2 /\ q[2] > 0 /\ q[1] * b = a * q[2]
\* q rounded down to two decimals, in hundredths
Hundredths(q) == (q[1] * 100) \div q[2]

ExampleTier == [case_price |-> 500, cost_per_tx |-> 50, tx_per_case |-> 10]
ExampleCall ==
    [ tier |-> ExampleTier, num_cases |-> 2, price_per_tx |-> 200,
      extra_cost_per_tx |-> 20, shipping_cost |-> 100 ]
ZeroProfitCall == [ExampleCall EXCEPT !.price_per_tx = 70]

\* C1: for every tier and every non-negative scenario calc_roi returns
\* total_txs = num_cases * tx_per_case, product_cost = num_cases * case_price,
\* total_cost = product_cost + shipping_cost, total_cost_per_tx = cost_per_tx +
\* extra_cost_per_tx, profit_per_tx = price_per_tx - total_cost_per_tx,
\* total_revenue = price_per_tx * total_txs, total_profit = profit_per_tx *
\* total_txs, margin_pct = total_profit / total_revenue * 100 if total_revenue > 0
\* else 0, roi_pct = total_profit / total_cost * 100 if total_cost > 0 else 0;
\* and the 500/50/10 tier with 2 cases at 200, extra 20, shipping 100 gives
\* 20, 1000, 1100, 70, 130, 4000, 2600, 65, about 236.36 and about 8.46.
C1_Formulas ==
    ret # None =>
        /\ ~Raised(ret)
        /\ ret.total_txs = call.num_cases * call.tier.tx_per_case
        /\ ret.product_cost = call.num_cases * call.tier.case_price
        /\ ret.total_cost = ret.product_cost + call.shipping_cost
        /\ ret.total_cost_per_tx = call.tier.cost_per_tx + call.extra_cost_per_tx
        /\ ret.profit_per_tx = call.price_per_tx - ret.total_cost_per_tx
        /\ ret.total_revenue = call.price_per_tx * ret.total_txs
        /\ ret.total_profit = ret.profit_per_tx * ret.total_txs
        /\ IF ret.total_revenue > 0
           THEN IsPct(ret.margin_pct, ret.total_profit, ret.total_revenue)
           ELSE ret.margin_pct = <<0, 1>>
        /\ IF ret.total_cost > 0
           THEN IsPct(ret.roi_pct, ret.total_profit, ret.total_cost)
           ELSE ret.roi_pct = <<0, 1>>
        /\ call = ExampleCall =>
               /\ ret.total_txs = 20
               /\ ret.product_cost = 1000
               /\ ret.total_cost = 1100
               /\ ret.total_cost_per_tx = 70
               /\ ret.profit_per_tx = 130
               /\ ret.total_revenue = 4000
               /\ ret.total_profit = 2600
               /\ ret.margin_pct = <<65, 1>>
               /\ Hundredths(ret.roi_pct) = 23636
               /\ Hundredths(ret.breakeven_txs) = 846

C1_Witness == Returned /\ call = ExampleCall /\ ret.total_profit = 2600

\* C2: breakeven_txs = total_cost / profit_per_tx exactly when profit_per_tx > 0
\* and None (not 0, not infinite) whenever profit_per_tx <= 0; when price_per_tx
\* equals cost_per_tx + extra_cost_per_tx, profit_per_tx = 0, total_profit = 0,
\* roi_pct = 0 and breakeven_txs is None (so for the 500/50/10 tier at price 70).
C2_BreakevenNone ==
    ret # None =>
        LET profit == call.price_per_tx - (call.tier.cost_per_tx + call.extra_cost_per_tx)
            cost == call.num_cases * call.tier.case_price + call.shipping_cost
        IN  /\ ~Raised(ret)
            /\ profit > 0 => IsQuot(ret.breakeven_txs, cost, profit)
            /\ profit <= 0 => ret.breakeven_txs = None
            /\ profit = 0 =>
                   /\ ret.profit_per_tx = 0
                   /\ ret.total_profit = 0
                   /\ ret.roi_pct = <<0, 1>>
                   /\ ret.breakeven_txs = None
            /\ call = ZeroProfitCall => profit = 0

C2_Witness ==
    Returned /\ call = ZeroProfitCall /\ ret.profit_per_tx = 0 /\ ret.breakeven_txs = None

\* C3: for every non-negative input calc_roi completes without a division by
\* zero or any other error; margin_pct is 0 whenever total_revenue is 0 and
\* roi_pct is 0 whenever total_cost is 0; with num_cases = 0 the result has
\* total_txs = 0, product_cost = 0, total_revenue = 0, total_profit = 0, and
\* roi_pct = 0 when shipping_cost is 0 too.
C3_NoError ==
    ret # None =>
        /\ ~Raised(ret)
        /\ call.price_per_tx * call.num_cases * call.tier.tx_per_case = 0
               => ret.margin_pct = <<0, 1>>
        /\ call.num_cases * call.tier.case_price + call.shipping_cost = 0
               => ret.roi_pct = <<0, 1>>
        /\ call.num_cases = 0 =>
               /\ ret.total_txs = 0
               /\ ret.product_cost = 0
               /\ ret.total_revenue = 0
               /\ ret.total_profit = 0
               /\ call.shipping_cost = 0 => ret.roi_pct = <<0, 1>>

C3_Witness ==
    /\ Returned
    /\ call.num_cases = 0 /\ call.price_per_tx = 0
    /\ call.tier.case_price = 0 /\ call.shipping_cost = 0
    /\ ret.margin_pct = <<0, 1>> /\ ret.roi_pct = <<0, 1>>

\* the profit formula total_profit = profit_per_tx * total_txs at a fractional
\* number of treatments q
ProfitAt(profit, q) == Times(q, profit)

\* C7, as claimed: for every scenario with price_per_tx > total_cost_per_tx,
\* breakeven_txs = total_cost / profit_per_tx, and the profit formula at
\* total_txs = breakeven_txs yields a total_profit of 0.
C7_RoundTripZero ==
    (ret # None /\ call.price_per_tx > call.tier.cost_per_tx + call.extra_cost_per_tx) =>
        /\ IsQuot(ret.breakeven_txs, ret.total_cost, ret.profit_per_tx)
        /\ ProfitAt(ret.profit_per_tx, ret.breakeven_txs) = <<0, 1>>

\* C7, amended: for every scenario with price_per_tx > total_cost_per_tx,
\* breakeven_txs = total_cost / profit_per_tx, and the profit formula at
\* total_txs = breakeven_txs yields total_cost (the profit then equals the cost
\* of the order), which is 0 only when total_cost is 0.
C7_RoundTripCost ==
    (ret # None /\ call.price_per_tx > call.tier.cost_per_tx + call.extra_cost_per_tx) =>
        /\ IsQuot(ret.breakeven_txs, ret.total_cost, ret.profit_per_tx)
        /\ ProfitAt(ret.profit_per_tx, ret.breakeven_txs)
               = <<call.num_cases * call.tier.case_price + call.shipping_cost, 1>>

C7_Witness ==
    /\ Returned
    /\ ret.profit_per_tx > 0
    /\ ret.total_cost > 0
    /\ ProfitAt(ret.profit_per_tx, ret.breakeven_txs) = <<ret.total_cost, 1>>

\* the same call with num_cases scaled by k and shipping_cost by j
Scaled(k, j) ==
    calc_roi(call.tier, k * call.num_cases, call.price_per_tx,
             call.extra_cost_per_tx, j * call.shipping_cost, LoadedDefaultTx)

\* C8: for num_cases >= 1, multiplying num_cases and shipping_cost by the same
\* factor leaves margin_pct and roi_pct unchanged, whereas with a fixed positive
\* shipping_cost, a non-zero profit_per_tx and a positive case_price, doubling
\* num_cases changes roi_pct and does not double it.
C8_Scaling ==
    (ret # None /\ call.num_cases >= 1) =>
        /\ \A k \in 1..MaxScale :
               /\ Scaled(k, k).margin_pct = ret.margin_pct
               /\ Scaled(k, k).roi_pct = ret.roi_pct
        /\ ( /\ call.shipping_cost > 0
             /\ call.price_per_tx # call.tier.cost_per_tx + call.extra_cost_per_tx
             /\ call.tier.case_price > 0 ) =>
               /\ Scaled(2, 1).roi_pct # ret.roi_pct
               /\ Scaled(2, 1).roi_pct # Times(ret.roi_pct, 2)

C8_Witness ==
    /\ Returned
    /\ call.num_cases >= 1 /\ call.shipping_cost > 0 /\ call.tier.case_price > 0
    /\ ret.profit_per_tx > 0
    /\ Scaled(2, 2).roi_pct = ret.roi_pct
    /\ Scaled(2, 1).roi_pct # ret.roi_pct

-----------------------------------------------------------------------------
(* Claims about the script, checked under Spec *)

Ok(s) == status[s] = "ok"

\* the tier names of a file in the order of their first rows
RECURSIVE FirstNames(_, _)
FirstNames(df, i) ==
    IF i > Len(df) THEN <<>>
    ELSE (IF \E j \in 1..(i - 1) : df[j].tier_name = df[i].tier_name
          THEN <<>> ELSE <<df[i].tier_name>>) \o FirstNames(df, i + 1)

\* the last row of a file that carries the name
LastRow(df, name) ==
    df[CHOOSE i \in 1..Len(df) :
           /\ df[i].tier_name = name
           /\ \A j \in (i + 1)..Len(df) : df[j].tier_name # name]

\* catalog d holds exactly what file df was loaded with
HoldsFile(d, df) ==
    /\ Keys(d) = FirstNames(df, 1)
    /\ \A i \in 1..Len(d) : \A f \in DOMAIN d[i].val : d[i].val[f] = LastRow(df, d[i].key)[f]

HoldsShippingFile(d, df) ==
    /\ Len(d) = Len(df)
    /\ \A i \in 1..Len(d) :
           d[i].key = df[i].shipping_name /\ d[i].val = df[i].shipping_cost

OverrideFields == {"case_price", "cost_per_tx", "tx_per_case"}

\* the tier the runtime catalog of session s holds under the name
RuntimeTier(s, name) == heap[s][Lookup(tiers_runtime[s], name)]

\* session s holds an override: a tier setting that differs from the file's
Overridden(s) ==
    \E i \in 1..Len(tiers_runtime[s]) : \E f \in OverrideFields :
        RuntimeTier(s, tiers_runtime[s][i].key)[f] # LastRow(tiers_df, tiers_runtime[s][i].key)[f]

\* C4: after any sequence of overrides and runs the base catalogs TIERS_BASE,
\* PDLLA_TIERS_BASE and SHIPPING_BASE hold exactly the values they were loaded
\* with; overrides are written only to the session's own runtime copy, which
\* holds the loaded values except for that session's own tier settings.
C4_BaseUntouched ==
    \A s \in Sessions : Ok(s) =>
        /\ HoldsFile(Deref(heap[s], TIERS_BASE[s]), tiers_df)
        /\ HoldsFile(Deref(heap[s], PDLLA_TIERS_BASE[s]), pdlla_df)
        /\ HoldsShippingFile(SHIPPING_BASE[s], shipping_df)
        /\ HoldsShippingFile(shipping_runtime[s], shipping_df)
        /\ Keys(tiers_runtime[s]) = FirstNames(tiers_df, 1)
        /\ \A i \in 1..Len(tiers_runtime[s]) :
               LET name == tiers_runtime[s][i].key
                   tier == RuntimeTier(s, name)
               IN  /\ tier.case_price = session_state[s][WCasePrice(name)]
                   /\ tier.cost_per_tx = session_state[s][WCostPerTx(name)]
                   /\ tier.tx_per_case = session_state[s][WTxPerCase(name)]
                   /\ \A f \in DOMAIN tier \ OverrideFields :
                          tier[f] = LastRow(tiers_df, name)[f]

\* one session holds overrides and a shipping cost of its own while the other
\* has run and holds none
C4_Witness ==
    \E s, t \in Sessions :
        /\ Ok(s) /\ Ok(t) /\ s # t
        /\ Overridden(s)
        /\ ~Overridden(t)
        /\ interactions = MaxInteractions
        /\ inputs[s].shipping_cost # Lookup(SHIPPING_BASE[s], inputs[s].shipping_name)

\* the values a comparison row must hold for tier, computed from the scenario
RowFor(row, tier, inp) ==
    LET profit == inp.price_per_tx - (tier.cost_per_tx + inp.extra_cost_per_tx)
        txs == inp.num_cases * tier.tx_per_case
        cost == inp.num_cases * tier.case_price + inp.shipping_cost
    IN  /\ row["Cost per treatment"] = tier.cost_per_tx
        /\ row["Total Profit"] = profit * txs
        /\ IF cost > 0 THEN IsPct(row["ROI %"], profit * txs, cost)
           ELSE row["ROI %"] = <<0, 1>>

\* C5: the comparison has exactly one row per entry of the tier catalog, in
\* catalog insertion order whatever the profits and ROIs are, and row i is the
\* result for the i-th tier under the one scenario of the run.
C5_OneRowPerTier ==
    \A s \in Sessions : Ok(s) =>
        /\ Len(comparison[s]) = Len(tiers_runtime[s])
        /\ Len(comparison[s]) = Len(FirstNames(tiers_df, 1))
        /\ \A i \in 1..Len(comparison[s]) :
               /\ comparison[s][i]["Tier"] = FirstNames(tiers_df, 1)[i]
               /\ comparison[s][i]["Tier"] = tiers_runtime[s][i].key
               /\ RowFor(comparison[s][i], RuntimeTier(s, tiers_runtime[s][i].key), inputs[s])

\* the rows of one session are in ascending, those of the other in descending
\* order of ROI and of profit
C5_Witness ==
    \E s, t \in Sessions :
        /\ Ok(s) /\ Ok(t)
        /\ Len(comparison[s]) = 2
        /\ FracLess(comparison[s][1]["ROI %"], comparison[s][2]["ROI %"])
        /\ FracLess(comparison[t][2]["ROI %"], comparison[t][1]["ROI %"])

\* the result of calc_roi for the i-th tier of session s's runtime catalog
ResultFor(s, i) ==
    calc_roi(RuntimeTier(s, tiers_runtime[s][i].key), inputs[s].num_cases,
             inputs[s].price_per_tx, inputs[s].extra_cost_per_tx,
             inputs[s].shipping_cost, LoadedDefaultTx)

\* C6, as claimed: each comparison row carries six values of the result for its
\* tier: tier_name, cost_per_tx_product, total_profit, profit_per_tx, margin_pct
\* and roi_pct.
C6_SixValues ==
    \A s \in Sessions : Ok(s) =>
        \A i \in 1..Len(comparison[s]) :
            LET row == comparison[s][i]
                r == ResultFor(s, i)
            IN  /\ Cardinality(DOMAIN row) = 6
                /\ row["Tier"] = tiers_runtime[s][i].key
                /\ row["Cost per treatment"] = r.cost_per_tx_product
                /\ row["Total Profit"] = r.total_profit
                /\ row["ROI %"] = r.roi_pct
                /\ \E k \in DOMAIN row \ {"Tier", "Cost per treatment", "Total Profit", "ROI %"} :
                       row[k] = r.profit_per_tx
                /\ \E k \in DOMAIN row \ {"Tier", "Cost per treatment", "Total Profit", "ROI %"} :
                       row[k] = r.margin_pct

\* C6, amended: each comparison row carries four values of the result for its
\* tier, Tier = the tier's name, Cost per treatment = cost_per_tx_product,
\* Total Profit = total_profit and ROI % = roi_pct, and nothing else.
C6_FourValues ==
    \A s \in Sessions : Ok(s) =>
        \A i \in 1..Len(comparison[s]) :
            LET row == comparison[s][i]
                r == ResultFor(s, i)
            IN  /\ DOMAIN row = {"Tier", "Cost per treatment", "Total Profit", "ROI %"}
                /\ row["Tier"] = tiers_runtime[s][i].key
                /\ row["Cost per treatment"] = r.cost_per_tx_product
                /\ row["Total Profit"] = r.total_profit
                /\ row["ROI %"] = r.roi_pct

\* a row whose result has a margin and a profit per treatment the row lacks
C6_Witness ==
    \E s \in Sessions :
        /\ Ok(s)
        /\ Len(comparison[s]) >= 2
        /\ \E i \in 1..Len(comparison[s]) :
               /\ ResultFor(s, i).margin_pct # ResultFor(s, i).roi_pct
               /\ ResultFor(s, i).profit_per_tx # ResultFor(s, i).total_profit
               /\ comparison[s][i]["ROI %"] = ResultFor(s, i).roi_pct

\* C9, as claimed: when the tier catalog is empty the comparison is an empty
\* sequence of rows and no error is raised.
C9_EmptyCatalog ==
    \A s \in Sessions :
        (Len(tiers_df) = 0 /\ status[s] # "none") =>
            /\ status[s] = "ok"
            /\ comparison[s] = <<>>

\* the row of the comparison for the tier of this name
RowOf(s, name) ==
    comparison[s][CHOOSE i \in 1..Len(comparison[s]) : comparison[s][i]["Tier"] = name]

\* C10: after any sequence of overrides the summary result of the selected
\* Genovia tier and the comparison row of that tier come from the same
\* overridden runtime tier and the same scenario, so the row's Total Profit and
\* ROI % equal genovia_results' total_profit and roi_pct; the PDLLA result comes
\* from the PDLLA tier as loaded under the same scenario, whatever the overrides.
C10_SameTierSameScenario ==
    \A s \in Sessions : Ok(s) =>
        LET inp == inputs[s]
            g == genovia_results[s]
            p == pdlla_results[s]
            row == RowOf(s, inp.tier_choice)
            tier == RuntimeTier(s, inp.tier_choice)
            ptier == LastRow(pdlla_df, inp.pdlla_tier_choice)
            pprofit == (inp.price_per_tx - (ptier.cost_per_tx + inp.extra_cost_per_tx))
                           * inp.num_cases * ptier.tx_per_case
            pcost == inp.num_cases * ptier.case_price + inp.shipping_cost
        IN  /\ row["Total Profit"] = g.total_profit
            /\ row["ROI %"] = g.roi_pct
            /\ g.total_cases = inp.num_cases /\ p.total_cases = inp.num_cases
            /\ g.revenue_per_tx = inp.price_per_tx /\ p.revenue_per_tx = inp.price_per_tx
            /\ g.extra_cost_per_tx = inp.extra_cost_per_tx
            /\ p.extra_cost_per_tx = inp.extra_cost_per_tx
            /\ g.shipping_cost = inp.shipping_cost /\ p.shipping_cost = inp.shipping_cost
            /\ g.cost_per_tx_product = tier.cost_per_tx
            /\ g.product_cost = inp.num_cases * tier.case_price
            /\ g.total_txs = inp.num_cases * tier.tx_per_case
            /\ p.cost_per_tx_product = ptier.cost_per_tx
            /\ p.total_txs = inp.num_cases * ptier.tx_per_case
            /\ p.total_profit = pprofit
            /\ p.total_cost = pcost
            /\ IsPct(p.roi_pct, pprofit, pcost)

\* the selected tier is not the first of the catalog and holds an overridden
\* case price, which the summary and the row both show
C10_Witness ==
    \E s \in Sessions :
        /\ Ok(s)
        /\ inputs[s].tier_choice # tiers_runtime[s][1].key
        /\ RuntimeTier(s, inputs[s].tier_choice).case_price
               # LastRow(tiers_df, inputs[s].tier_choice).case_price
        /\ genovia_results[s].product_cost
               = inputs[s].num_cases * RuntimeTier(s, inputs[s].tier_choice).case_price
        /\ RowOf(s, inputs[s].tier_choice)["ROI %"] = genovia_results[s].roi_pct

=============================================================================
